---------------------------- MODULE Spec2Model ----------------------------
(***************************************************************************)
(* DuckChain MCP server (src/src/duckchain/server.py).                     *)
(*                                                                         *)
(* The server registers 51 tools, 2 resources and 3 prompts.  Every tool   *)
(* obtains the shared DuckChainAPI client (constructing it on first use),  *)
(* delegates to one client method, which builds an endpoint path and a     *)
(* params mapping and awaits one httpx GET, and turns the outcome into a   *)
(* string.  The only suspension point of a tool is the await of the GET,   *)
(* so a tool is two steps: Call (up to the await) and Receive (after it).  *)
(*                                                                         *)
(* Spec is a host that invokes the tools one after another.  ConcSpec is   *)
(* a host with two invocations in flight, TimedSpec one whose upstream     *)
(* takes its time: both call a few of the tools only.                      *)
(*                                                                         *)
(* Strings are TLA+ strings and Python's f-strings are concatenations.     *)
(* Requests are observed where the client hands them to httpx: the url     *)
(* string and the params mapping of client.get(url, params=...).  The      *)
(* argument values drawn below contain only URL-unreserved characters and  *)
(* "/", which httpx leaves as they are when it puts them on the wire.      *)
(***************************************************************************)
EXTENDS Naturals, Sequences, FiniteSets, TLC

\* ------------------------------------------------------------------------
\* Bounds of the model
\* ------------------------------------------------------------------------

\* number of tool invocations the host makes in a run
MaxCalls == 2

\* ------------------------------------------------------------------------
\* Python values
\* ------------------------------------------------------------------------

\* Optional[str]: None, or a string
None == <<>>
Some(v) == <<v>>

\* `if x:` on an Optional[str]: None and "" are both falsy
Truthy(o) == o # None /\ o[1] # ""

\* decoded JSON values, as response.json() returns them
JNull == [t |-> "null"]
JBool(b) == [t |-> "bool", v |-> b]
JInt(n) == [t |-> "int", v |-> n]
JStr(s) == [t |-> "str", v |-> s]
JList(items) == [t |-> "list", v |-> items]
\* a dict is its items in insertion order, each <<key, value>>
JDict(items) == [t |-> "dict", v |-> items]

RECURSIVE PyStr(_)
RECURSIVE PyJoin(_, _)
\* ", ".join of the reprs of a list's elements (dict = FALSE) or of the
\* 'key': value items of a dict (dict = TRUE)
PyJoin(items, dict) ==
    IF items = <<>> THEN ""
    ELSE LET first == IF dict
                      THEN "'" \o items[1][1] \o "': " \o PyStr(items[1][2])
                      ELSE PyStr(items[1])
         IN  IF Len(items) = 1 THEN first
             ELSE first \o ", " \o PyJoin(Tail(items), dict)

\* str() of a decoded JSON value, as the f-string's {result} renders it
PyStr(j) ==
    CASE j.t = "null" -> "None"
      [] j.t = "bool" -> (IF j.v THEN "True" ELSE "False")
      [] j.t = "int"  -> ToString(j.v)
      [] j.t = "str"  -> "'" \o j.v \o "'"
      [] j.t = "list" -> "[" \o PyJoin(j.v, FALSE) \o "]"
      [] j.t = "dict" -> "{" \o PyJoin(j.v, TRUE) \o "}"

\* f-string with placeholders: lits[1] {args[1]} lits[2] {args[2]} ... lits[n]
RECURSIVE Interleave(_, _)
Interleave(lits, args) ==
    IF Len(lits) = 1 THEN lits[1]
    ELSE lits[1] \o args[1] \o Interleave(Tail(lits), Tail(args))

\* ------------------------------------------------------------------------
\* DuckChainAPI: the client methods
\* ------------------------------------------------------------------------

base_url == "https://scan.duckchain.io/api/v2"
timeout == 30

\* Each client method: the literal pieces of its endpoint f-string (its
\* leading arguments fill the gaps) and the query parameters it sets; an
\* optional one is set under `if <arg>:`, the others unconditionally.
Method(m) ==
    CASE m = "search" ->
        [path |-> <<"/search">>, query |-> <<[name |-> "q", arg |-> 1, optional |-> FALSE]>>]
      [] m = "search_redirect" ->
        [path |-> <<"/search/check-redirect">>, query |-> <<[name |-> "q", arg |-> 1, optional |-> FALSE]>>]
      [] m = "get_transactions" ->
        [path |-> <<"/transactions">>,
         query |-> <<[name |-> "filter", arg |-> 1, optional |-> TRUE],
                     [name |-> "type", arg |-> 2, optional |-> TRUE],
                     [name |-> "method", arg |-> 3, optional |-> TRUE]>>]
      [] m = "get_blocks" ->
        [path |-> <<"/blocks">>, query |-> <<[name |-> "type", arg |-> 1, optional |-> TRUE]>>]
      [] m = "get_block" ->
        [path |-> <<"/blocks/", "">>, query |-> <<>>]
      [] m = "get_block_transactions" ->
        [path |-> <<"/blocks/", "/transactions">>, query |-> <<>>]
      [] m = "get_block_withdrawals" ->
        [path |-> <<"/blocks/", "/withdrawals">>, query |-> <<>>]
      [] m = "get_token_transfers" ->
        [path |-> <<"/token-transfers">>, query |-> <<>>]
      [] m = "get_internal_transactions" ->
        [path |-> <<"/internal-transactions">>, query |-> <<>>]
      [] m = "get_addresses" ->
        [path |-> <<"/addresses">>, query |-> <<>>]
      [] m = "get_address" ->
        [path |-> <<"/addresses/", "">>, query |-> <<>>]
      [] m = "get_address_counters" ->
        [path |-> <<"/addresses/", "/counters">>, query |-> <<>>]
      [] m = "get_address_transactions" ->
        [path |-> <<"/addresses/", "/transactions">>, query |-> <<>>]
      [] m = "get_address_token_transfers" ->
        [path |-> <<"/addresses/", "/token-transfers">>, query |-> <<>>]
      [] m = "get_address_internal_transactions" ->
        [path |-> <<"/addresses/", "/internal-transactions">>, query |-> <<>>]
      [] m = "get_address_logs" ->
        [path |-> <<"/addresses/", "/logs">>, query |-> <<>>]
      [] m = "get_address_blocks_validated" ->
        [path |-> <<"/addresses/", "/blocks-validated">>, query |-> <<>>]
      [] m = "get_address_token_balances" ->
        [path |-> <<"/addresses/", "/token-balances">>, query |-> <<>>]
      [] m = "get_address_tokens" ->
        [path |-> <<"/addresses/", "/tokens">>, query |-> <<>>]
      [] m = "get_address_coin_balance_history" ->
        [path |-> <<"/addresses/", "/coin-balance-history">>, query |-> <<>>]
      [] m = "get_address_coin_balance_history_by_day" ->
        [path |-> <<"/addresses/", "/coin-balance-history-by-day">>, query |-> <<>>]
      [] m = "get_address_withdrawals" ->
        [path |-> <<"/addresses/", "/withdrawals">>, query |-> <<>>]
      [] m = "get_address_nft" ->
        [path |-> <<"/addresses/", "/nft">>, query |-> <<>>]
      [] m = "get_address_nft_collections" ->
        [path |-> <<"/addresses/", "/nft/collections">>, query |-> <<>>]
      [] m = "get_tokens" ->
        [path |-> <<"/tokens">>, query |-> <<>>]
      [] m = "get_token" ->
        [path |-> <<"/tokens/", "">>, query |-> <<>>]
      [] m = "get_token_transfers_by_token" ->
        [path |-> <<"/tokens/", "/transfers">>, query |-> <<>>]
      [] m = "get_token_holders" ->
        [path |-> <<"/tokens/", "/holders">>, query |-> <<>>]
      [] m = "get_token_counters" ->
        [path |-> <<"/tokens/", "/counters">>, query |-> <<>>]
      [] m = "get_token_instances" ->
        [path |-> <<"/tokens/", "/instances">>, query |-> <<>>]
      [] m = "get_token_instance" ->
        [path |-> <<"/tokens/", "/instances/", "">>, query |-> <<>>]
      [] m = "get_token_instance_transfers" ->
        [path |-> <<"/tokens/", "/instances/", "/transfers">>, query |-> <<>>]
      [] m = "get_token_instance_holders" ->
        [path |-> <<"/tokens/", "/instances/", "/holders">>, query |-> <<>>]
      [] m = "get_token_instance_transfers_count" ->
        [path |-> <<"/tokens/", "/instances/", "/transfers-count">>, query |-> <<>>]
      [] m = "refetch_token_instance_metadata" ->
        [path |-> <<"/tokens/", "/instances/", "/refetch-metadata">>, query |-> <<>>]
      [] m = "get_smart_contracts" ->
        [path |-> <<"/smart-contracts">>, query |-> <<>>]
      [] m = "get_smart_contracts_counters" ->
        [path |-> <<"/smart-contracts/counters">>, query |-> <<>>]
      [] m = "get_smart_contract" ->
        [path |-> <<"/smart-contracts/", "">>, query |-> <<>>]
      [] m = "get_main_page_transactions" ->
        [path |-> <<"/main-page/transactions">>, query |-> <<>>]
      [] m = "get_main_page_blocks" ->
        [path |-> <<"/main-page/blocks">>, query |-> <<>>]
      [] m = "get_indexing_status" ->
        [path |-> <<"/main-page/indexing-status">>, query |-> <<>>]
      [] m = "get_stats" ->
        [path |-> <<"/stats">>, query |-> <<>>]
      [] m = "get_transactions_chart" ->
        [path |-> <<"/stats/charts/transactions">>, query |-> <<>>]
      [] m = "get_market_chart" ->
        [path |-> <<"/stats/charts/market">>, query |-> <<>>]
      [] m = "get_transaction" ->
        [path |-> <<"/transactions/", "">>, query |-> <<>>]
      [] m = "get_transaction_token_transfers" ->
        [path |-> <<"/transactions/", "/token-transfers">>, query |-> <<[name |-> "type", arg |-> 2, optional |-> TRUE]>>]
      [] m = "get_transaction_internal_transactions" ->
        [path |-> <<"/transactions/", "/internal-transactions">>, query |-> <<>>]
      [] m = "get_transaction_logs" ->
        [path |-> <<"/transactions/", "/logs">>, query |-> <<>>]
      [] m = "get_transaction_raw_trace" ->
        [path |-> <<"/transactions/", "/raw-trace">>, query |-> <<>>]
      [] m = "get_transaction_state_changes" ->
        [path |-> <<"/transactions/", "/state-changes">>, query |-> <<>>]
      [] m = "get_transaction_summary" ->
        [path |-> <<"/transactions/", "/summary">>, query |-> <<>>]

\* ------------------------------------------------------------------------
\* create_server: the tools
\* ------------------------------------------------------------------------

\* Each tool, in registration order: the client method it awaits (passing
\* its own arguments in order), the names of its arguments, the literal
\* pieces of its success f-string up to {result}, and the action of its
\* error f-string "Error <action>: {str(e)}".
ToolNames ==
    << "search_blockchain",
       "check_search_redirect",
       "get_transactions",
       "get_transaction_details",
       "get_transaction_token_transfers",
       "get_transaction_internal_transactions",
       "get_transaction_logs",
       "get_transaction_raw_trace",
       "get_transaction_state_changes",
       "get_transaction_summary",
       "get_blocks",
       "get_block_details",
       "get_block_transactions",
       "get_block_withdrawals",
       "get_token_transfers",
       "get_internal_transactions",
       "get_main_page_transactions",
       "get_main_page_blocks",
       "get_indexing_status",
       "get_blockchain_stats",
       "get_transactions_chart",
       "get_market_chart",
       "get_addresses_list",
       "get_address_details",
       "get_address_counters",
       "get_address_transactions",
       "get_address_token_transfers",
       "get_address_internal_transactions",
       "get_address_logs",
       "get_address_blocks_validated",
       "get_address_token_balances",
       "get_address_tokens",
       "get_address_coin_balance_history",
       "get_address_coin_balance_history_by_day",
       "get_address_withdrawals",
       "get_address_nft",
       "get_address_nft_collections",
       "get_tokens_list",
       "get_token_details",
       "get_token_transfers_by_token",
       "get_token_holders",
       "get_token_counters",
       "get_token_instances",
       "get_token_instance_details",
       "get_token_instance_transfers",
       "get_token_instance_holders",
       "get_token_instance_transfers_count",
       "refetch_token_instance_metadata_tool",
       "get_smart_contracts_list",
       "get_smart_contracts_counters",
       "get_smart_contract_details" >>

Tool(t) ==
    CASE t = "search_blockchain" ->
        [method |-> "search", args |-> <<"query">>,
         label |-> <<"Search results for '", "':\n">>,
         action |-> "searching blockchain"]
      [] t = "check_search_redirect" ->
        [method |-> "search_redirect", args |-> <<"query">>,
         label |-> <<"Search redirect check for '", "':\n">>,
         action |-> "checking search redirect"]
      [] t = "get_transactions" ->
        [method |-> "get_transactions", args |-> <<"filter_type", "transaction_type", "method">>,
         label |-> <<"Transactions:\n">>,
         action |-> "getting transactions"]
      [] t = "get_transaction_details" ->
        [method |-> "get_transaction", args |-> <<"transaction_hash">>,
         label |-> <<"Transaction details for ", ":\n">>,
         action |-> "getting transaction details"]
      [] t = "get_transaction_token_transfers" ->
        [method |-> "get_transaction_token_transfers", args |-> <<"transaction_hash", "token_type">>,
         label |-> <<"Token transfers for transaction ", ":\n">>,
         action |-> "getting transaction token transfers"]
      [] t = "get_transaction_internal_transactions" ->
        [method |-> "get_transaction_internal_transactions", args |-> <<"transaction_hash">>,
         label |-> <<"Internal transactions for transaction ", ":\n">>,
         action |-> "getting transaction internal transactions"]
      [] t = "get_transaction_logs" ->
        [method |-> "get_transaction_logs", args |-> <<"transaction_hash">>,
         label |-> <<"Logs for transaction ", ":\n">>,
         action |-> "getting transaction logs"]
      [] t = "get_transaction_raw_trace" ->
        [method |-> "get_transaction_raw_trace", args |-> <<"transaction_hash">>,
         label |-> <<"Raw trace for transaction ", ":\n">>,
         action |-> "getting transaction raw trace"]
      [] t = "get_transaction_state_changes" ->
        [method |-> "get_transaction_state_changes", args |-> <<"transaction_hash">>,
         label |-> <<"State changes for transaction ", ":\n">>,
         action |-> "getting transaction state changes"]
      [] t = "get_transaction_summary" ->
        [method |-> "get_transaction_summary", args |-> <<"transaction_hash">>,
         label |-> <<"Summary for transaction ", ":\n">>,
         action |-> "getting transaction summary"]
      [] t = "get_blocks" ->
        [method |-> "get_blocks", args |-> <<"block_type">>,
         label |-> <<"Blocks:\n">>,
         action |-> "getting blocks"]
      [] t = "get_block_details" ->
        [method |-> "get_block", args |-> <<"block_number_or_hash">>,
         label |-> <<"Block details for ", ":\n">>,
         action |-> "getting block details"]
      [] t = "get_block_transactions" ->
        [method |-> "get_block_transactions", args |-> <<"block_number_or_hash">>,
         label |-> <<"Transactions for block ", ":\n">>,
         action |-> "getting block transactions"]
      [] t = "get_block_withdrawals" ->
        [method |-> "get_block_withdrawals", args |-> <<"block_number_or_hash">>,
         label |-> <<"Withdrawals for block ", ":\n">>,
         action |-> "getting block withdrawals"]
      [] t = "get_token_transfers" ->
        [method |-> "get_token_transfers", args |-> <<>>,
         label |-> <<"Token transfers:\n">>,
         action |-> "getting token transfers"]
      [] t = "get_internal_transactions" ->
        [method |-> "get_internal_transactions", args |-> <<>>,
         label |-> <<"Internal transactions:\n">>,
         action |-> "getting internal transactions"]
      [] t = "get_main_page_transactions" ->
        [method |-> "get_main_page_transactions", args |-> <<>>,
         label |-> <<"Main page transactions:\n">>,
         action |-> "getting main page transactions"]
      [] t = "get_main_page_blocks" ->
        [method |-> "get_main_page_blocks", args |-> <<>>,
         label |-> <<"Main page blocks:\n">>,
         action |-> "getting main page blocks"]
      [] t = "get_indexing_status" ->
        [method |-> "get_indexing_status", args |-> <<>>,
         label |-> <<"Indexing status:\n">>,
         action |-> "getting indexing status"]
      [] t = "get_blockchain_stats" ->
        [method |-> "get_stats", args |-> <<>>,
         label |-> <<"Blockchain statistics:\n">>,
         action |-> "getting blockchain stats"]
      [] t = "get_transactions_chart" ->
        [method |-> "get_transactions_chart", args |-> <<>>,
         label |-> <<"Transactions chart data:\n">>,
         action |-> "getting transactions chart"]
      [] t = "get_market_chart" ->
        [method |-> "get_market_chart", args |-> <<>>,
         label |-> <<"Market chart data:\n">>,
         action |-> "getting market chart"]
      [] t = "get_addresses_list" ->
        [method |-> "get_addresses", args |-> <<>>,
         label |-> <<"Addresses list:\n">>,
         action |-> "getting addresses list"]
      [] t = "get_address_details" ->
        [method |-> "get_address", args |-> <<"address_hash">>,
         label |-> <<"Address details for ", ":\n">>,
         action |-> "getting address details"]
      [] t = "get_address_counters" ->
        [method |-> "get_address_counters", args |-> <<"address_hash">>,
         label |-> <<"Address counters for ", ":\n">>,
         action |-> "getting address counters"]
      [] t = "get_address_transactions" ->
        [method |-> "get_address_transactions", args |-> <<"address_hash">>,
         label |-> <<"Transactions for address ", ":\n">>,
         action |-> "getting address transactions"]
      [] t = "get_address_token_transfers" ->
        [method |-> "get_address_token_transfers", args |-> <<"address_hash">>,
         label |-> <<"Token transfers for address ", ":\n">>,
         action |-> "getting address token transfers"]
      [] t = "get_address_internal_transactions" ->
        [method |-> "get_address_internal_transactions", args |-> <<"address_hash">>,
         label |-> <<"Internal transactions for address ", ":\n">>,
         action |-> "getting address internal transactions"]
      [] t = "get_address_logs" ->
        [method |-> "get_address_logs", args |-> <<"address_hash">>,
         label |-> <<"Logs for address ", ":\n">>,
         action |-> "getting address logs"]
      [] t = "get_address_blocks_validated" ->
        [method |-> "get_address_blocks_validated", args |-> <<"address_hash">>,
         label |-> <<"Blocks validated by address ", ":\n">>,
         action |-> "getting address blocks validated"]
      [] t = "get_address_token_balances" ->
        [method |-> "get_address_token_balances", args |-> <<"address_hash">>,
         label |-> <<"Token balances for address ", ":\n">>,
         action |-> "getting address token balances"]
      [] t = "get_address_tokens" ->
        [method |-> "get_address_tokens", args |-> <<"address_hash">>,
         label |-> <<"Tokens for address ", ":\n">>,
         action |-> "getting address tokens"]
      [] t = "get_address_coin_balance_history" ->
        [method |-> "get_address_coin_balance_history", args |-> <<"address_hash">>,
         label |-> <<"Coin balance history for address ", ":\n">>,
         action |-> "getting address coin balance history"]
      [] t = "get_address_coin_balance_history_by_day" ->
        [method |-> "get_address_coin_balance_history_by_day", args |-> <<"address_hash">>,
         label |-> <<"Coin balance history by day for address ", ":\n">>,
         action |-> "getting address coin balance history by day"]
      [] t = "get_address_withdrawals" ->
        [method |-> "get_address_withdrawals", args |-> <<"address_hash">>,
         label |-> <<"Withdrawals for address ", ":\n">>,
         action |-> "getting address withdrawals"]
      [] t = "get_address_nft" ->
        [method |-> "get_address_nft", args |-> <<"address_hash">>,
         label |-> <<"NFT for address ", ":\n">>,
         action |-> "getting address NFT"]
      [] t = "get_address_nft_collections" ->
        [method |-> "get_address_nft_collections", args |-> <<"address_hash">>,
         label |-> <<"NFT collections for address ", ":\n">>,
         action |-> "getting address NFT collections"]
      [] t = "get_tokens_list" ->
        [method |-> "get_tokens", args |-> <<>>,
         label |-> <<"Tokens list:\n">>,
         action |-> "getting tokens list"]
      [] t = "get_token_details" ->
        [method |-> "get_token", args |-> <<"address_hash">>,
         label |-> <<"Token details for ", ":\n">>,
         action |-> "getting token details"]
      [] t = "get_token_transfers_by_token" ->
        [method |-> "get_token_transfers_by_token", args |-> <<"address_hash">>,
         label |-> <<"Transfers for token ", ":\n">>,
         action |-> "getting token transfers"]
      [] t = "get_token_holders" ->
        [method |-> "get_token_holders", args |-> <<"address_hash">>,
         label |-> <<"Holders for token ", ":\n">>,
         action |-> "getting token holders"]
      [] t = "get_token_counters" ->
        [method |-> "get_token_counters", args |-> <<"address_hash">>,
         label |-> <<"Counters for token ", ":\n">>,
         action |-> "getting token counters"]
      [] t = "get_token_instances" ->
        [method |-> "get_token_instances", args |-> <<"address_hash">>,
         label |-> <<"Instances for token ", ":\n">>,
         action |-> "getting token instances"]
      [] t = "get_token_instance_details" ->
        [method |-> "get_token_instance", args |-> <<"address_hash", "instance_id">>,
         label |-> <<"Token instance details for ", "/", ":\n">>,
         action |-> "getting token instance details"]
      [] t = "get_token_instance_transfers" ->
        [method |-> "get_token_instance_transfers", args |-> <<"address_hash", "instance_id">>,
         label |-> <<"Transfers for token instance ", "/", ":\n">>,
         action |-> "getting token instance transfers"]
      [] t = "get_token_instance_holders" ->
        [method |-> "get_token_instance_holders", args |-> <<"address_hash", "instance_id">>,
         label |-> <<"Holders for token instance ", "/", ":\n">>,
         action |-> "getting token instance holders"]
      [] t = "get_token_instance_transfers_count" ->
        [method |-> "get_token_instance_transfers_count", args |-> <<"address_hash", "instance_id">>,
         label |-> <<"Transfers count for token instance ", "/", ":\n">>,
         action |-> "getting token instance transfers count"]
      [] t = "refetch_token_instance_metadata_tool" ->
        [method |-> "refetch_token_instance_metadata", args |-> <<"address_hash", "instance_id">>,
         label |-> <<"Metadata refetch result for token instance ", "/", ":\n">>,
         action |-> "refetching token instance metadata"]
      [] t = "get_smart_contracts_list" ->
        [method |-> "get_smart_contracts", args |-> <<>>,
         label |-> <<"Smart contracts list:\n">>,
         action |-> "getting smart contracts list"]
      [] t = "get_smart_contracts_counters" ->
        [method |-> "get_smart_contracts_counters", args |-> <<>>,
         label |-> <<"Smart contracts counters:\n">>,
         action |-> "getting smart contracts counters"]
      [] t = "get_smart_contract_details" ->
        [method |-> "get_smart_contract", args |-> <<"address_hash">>,
         label |-> <<"Smart contract details for ", ":\n">>,
         action |-> "getting smart contract details"]

\* ------------------------------------------------------------------------
\* Inputs: the arguments a host passes and the answers of the upstream
\* ------------------------------------------------------------------------

\* the values a host passes for each tool parameter
ArgVals(param) ==
    CASE param = "query"                -> {"duck", ""}
      [] param = "filter_type"          -> {None, Some("validated"), Some("")}
      [] param = "transaction_type"     -> {None, Some("token_transfer"), Some("")}
      [] param = "method"               -> {None, Some("transfer"), Some("")}
      [] param = "block_type"           -> {None, Some("uncle"), Some("")}
      [] param = "token_type"           -> {None, Some("ERC-20"), Some("")}
      [] param = "transaction_hash"     -> {"0xTX", ""}
      [] param = "block_number_or_hash" -> {"999999999", "0xB"}
      [] param = "address_hash"         -> {"0xABC", "0xTOKEN"}
      [] param = "instance_id"          -> {"7", ""}

Tools == {ToolNames[i] : i \in 1..Len(ToolNames)}

\* the argument tuples a host can pass for a sequence of parameters
RECURSIVE ArgTuples(_)
ArgTuples(names) ==
    IF names = <<>> THEN {<<>>}
    ELSE {<<a>> \o rest : a \in ArgVals(names[1]), rest \in ArgTuples(Tail(names))}

\* the argument tuples a host can pass to tool t
ArgsOf(t) == ArgTuples(Tool(t).args)

BodyPage == "{\"items\": [], \"next_page_params\": null}"
BodyList == "[1, true, \"x\"]"
BodyHtml == "<html>"
BodyNotFound == "{\"message\": \"Not found\"}"

\* what the upstream can answer to a GET
Responses ==
    { [status |-> 200, reason |-> "OK", body |-> BodyPage, location |-> None],
      [status |-> 200, reason |-> "OK", body |-> BodyList, location |-> None],
      [status |-> 200, reason |-> "OK", body |-> BodyHtml, location |-> None],
      [status |-> 204, reason |-> "No Content", body |-> "", location |-> None],
      [status |-> 302, reason |-> "Found", body |-> "",
       location |-> Some("https://scan.duckchain.io/")],
      [status |-> 404, reason |-> "Not Found", body |-> BodyNotFound, location |-> None],
      [status |-> 500, reason |-> "Internal Server Error", body |-> BodyHtml,
       location |-> None] }

\* the exceptions httpx raises when no response arrives
TransportErrors ==
    { [cls |-> "ConnectError", msg |-> "All connection attempts failed"],
      [cls |-> "ReadTimeout", msg |-> ""] }

\* the Context a tool handler is given: the session configuration the host
\* supplies, None when it supplies none
Context(session_config) == [session_config |-> session_config]

NoConfig == Context(None)

\* the session configurations a host may offer
Contexts == {NoConfig, Context(Some([timeout |-> 10]))}

\* the exception DuckChainAPI() lets through when httpx.AsyncClient cannot be built
ConstructionError == [cls |-> "ValueError", msg |-> "Unknown scheme for proxy URL"]

\* what `await self.client.get(...)` can end with
Outcomes ==
    {[kind |-> "response", resp |-> r] : r \in Responses}
    \cup {[kind |-> "error", exc |-> e] : e \in TransportErrors}

\* ------------------------------------------------------------------------
\* DuckChainAPI
\* ------------------------------------------------------------------------

\* __init__: the fixed base URL, the fixed timeout and an open httpx client
\* built with that timeout.  httpx applies a client's timeout to each phase
\* of a request (connect, write, read of one chunk, pool acquisition).
DuckChainAPI ==
    [base_url |-> base_url, timeout |-> timeout,
     client |-> [timeout |-> timeout], closed |-> FALSE]

\* close(): closes the httpx client.  Nothing in the server calls it.
close(api) == [api EXCEPT !.closed = TRUE]

\* mutant: `if x is not None:` in place of `if x:`
BuildParamsNotNone(query, args) ==
    LET Set(e) == (~e.optional) \/ args[e.arg] # None
        set == SelectSeq(query, Set)
    IN  [i \in 1..Len(set) |->
            <<set[i].name,
              IF set[i].optional THEN args[set[i].arg][1] ELSE args[set[i].arg]>>]

\* mutant: every entry is added under `if value:`, the required ones too
BuildParamsAllTruthy(query, args) ==
    LET Set(e) == IF e.optional THEN Truthy(args[e.arg]) ELSE args[e.arg] # ""
        set == SelectSeq(query, Set)
    IN  [i \in 1..Len(set) |->
            <<set[i].name,
              IF set[i].optional THEN args[set[i].arg][1] ELSE args[set[i].arg]>>]

\* the params dict a client method builds from its arguments
BuildParams(query, args) ==
    LET Set(e) == (~e.optional) \/ Truthy(args[e.arg])
        set == SelectSeq(query, Set)
    IN  [i \in 1..Len(set) |->
            <<set[i].name,
              IF set[i].optional THEN args[set[i].arg][1] ELSE args[set[i].arg]>>]

\* mutant: get_token_transfers_by_token awaits api.get_token_transfers()
MethodOfCopied(t) ==
    IF t = "get_token_transfers_by_token" THEN "get_token_transfers" ELSE Tool(t).method

\* the client method tool t awaits (`await api.<method>(...)`)
MethodOf(t) == Tool(t).method

\* mutant: the two path arguments of the token-instance methods change places
ClientMethodSwapped(m, args) ==
    [endpoint |-> IF Len(Method(m).path) = 3
                  THEN Interleave(Method(m).path, <<args[2], args[1]>>)
                  ELSE Interleave(Method(m).path, args),
     params   |-> BuildParams(Method(m).query, args)]

\* a client method up to its call of _make_request: the endpoint and params
ClientMethod(m, args) ==
    [endpoint |-> Interleave(Method(m).path, args),
     params   |-> BuildParams(Method(m).query, args)]

\* _make_request up to its await: the GET handed to httpx
\* (`params or {}`: no params and an empty dict are both the empty mapping)
_make_request(api, endpoint, params) ==
    [method  |-> "GET",
     url     |-> api.base_url \o endpoint,
     params  |-> IF params = <<>> THEN <<>> ELSE params,
     timeout |-> api.client.timeout]

\* the query string httpx appends for a params mapping
RECURSIVE QueryPairs(_)
QueryPairs(params) ==
    IF Len(params) = 1 THEN params[1][1] \o "=" \o params[1][2]
    ELSE params[1][1] \o "=" \o params[1][2] \o "&" \o QueryPairs(Tail(params))

QueryString(params) == IF params = <<>> THEN "" ELSE "?" \o QueryPairs(params)

\* the URL of a request as it goes on the wire
WireUrl(req) == req.url \o QueryString(req.params)

\* response.raise_for_status(): nothing for a 2xx status, otherwise an
\* HTTPStatusError whose message httpx builds from the status line and the URL
ErrorType(status) ==
    CASE status \div 100 = 1 -> "Informational response"
      [] status \div 100 = 3 -> "Redirect response"
      [] status \div 100 = 4 -> "Client error"
      [] status \div 100 = 5 -> "Server error"

\* mutant: only 4xx and 5xx statuses raise
raise_for_status_4xx5xx(resp, req) ==
    IF resp.status < 400 THEN None
    ELSE Some([cls |-> "HTTPStatusError",
               msg |-> ErrorType(resp.status) \o " '" \o ToString(resp.status) \o " "
                       \o resp.reason \o "' for url '" \o WireUrl(req) \o "'"
                       \o "\nFor more information check: "
                       \o "https://developer.mozilla.org/en-US/docs/Web/HTTP/Status/"
                       \o ToString(resp.status)])

raise_for_status(resp, req) ==
    IF resp.status \div 100 = 2 THEN None
    ELSE Some([cls |-> "HTTPStatusError",
               msg |-> ErrorType(resp.status) \o " '" \o ToString(resp.status) \o " "
                       \o resp.reason \o "' for url '" \o WireUrl(req) \o "'"
                       \o (IF resp.location = None THEN ""
                           ELSE "\nRedirect location: '" \o resp.location[1] \o "'")
                       \o "\nFor more information check: "
                       \o "https://developer.mozilla.org/en-US/docs/Web/HTTP/Status/"
                       \o ToString(resp.status)])

\* response.json(): the decoded body, or a JSONDecodeError
\* mutant: a body that does not decode is returned as text
jsonLenient(body) ==
    CASE body = BodyPage ->
            [raised |-> FALSE,
             value |-> JDict(<< <<"items", JList(<<>>)>>,
                                <<"next_page_params", JNull>> >>)]
      [] body = BodyList ->
            [raised |-> FALSE,
             value |-> JList(<<JInt(1), JBool(TRUE), JStr("x")>>)]
      [] body = BodyNotFound ->
            [raised |-> FALSE,
             value |-> JDict(<< <<"message", JStr("Not found")>> >>)]
      [] OTHER -> [raised |-> FALSE, value |-> JStr(body)]

json(body) ==
    CASE body = BodyPage ->
            [raised |-> FALSE,
             value |-> JDict(<< <<"items", JList(<<>>)>>,
                                <<"next_page_params", JNull>> >>)]
      [] body = BodyList ->
            [raised |-> FALSE,
             value |-> JList(<<JInt(1), JBool(TRUE), JStr("x")>>)]
      [] body = BodyNotFound ->
            [raised |-> FALSE,
             value |-> JDict(<< <<"message", JStr("Not found")>> >>)]
      [] OTHER ->
            [raised |-> TRUE,
             exc |-> [cls |-> "JSONDecodeError",
                      msg |-> "Expecting value: line 1 column 1 (char 0)"]]

\* _make_request after its await: the decoded JSON, or the exception raised
_make_request_result(req, out) ==
    IF out.kind = "error" THEN [raised |-> TRUE, exc |-> out.exc]
    ELSE LET bad == raise_for_status(out.resp, req)
         IN  IF bad # None THEN [raised |-> TRUE, exc |-> bad[1]]
             ELSE json(out.resp.body)

\* ------------------------------------------------------------------------
\* The tool handlers
\* ------------------------------------------------------------------------

\* the classes `except Exception` catches
ExceptionClasses ==
    {"HTTPStatusError", "ConnectError", "ReadTimeout", "JSONDecodeError", "ValueError"}

\* mutant: `except httpx.HTTPError` in place of `except Exception`
CaughtHTTPError(exc) == exc.cls \in {"HTTPStatusError", "ConnectError", "ReadTimeout"}

Caught(exc) == exc.cls \in ExceptionClasses

\* mutant: the success string without the f-string's arguments
SuccessStringNoArgs(t, args, value) == Tool(t).label[1] \o PyStr(value)

\* the success f-string of tool t
SuccessString(t, args, value) == Interleave(Tool(t).label, args) \o PyStr(value)

\* mutant: {e!r} in place of {str(e)}
ErrorStringRepr(t, exc) ==
    "Error " \o Tool(t).action \o ": " \o exc.cls \o "('" \o exc.msg \o "')"

\* the error f-string of tool t
ErrorString(t, exc) == "Error " \o Tool(t).action \o ": " \o exc.msg

\* how a handler ends once its try block has a value or an exception
ToolResult(t, args, res) ==
    IF ~res.raised THEN [kind |-> "return", value |-> SuccessString(t, args, res.value)]
    ELSE IF Caught(res.exc) THEN [kind |-> "return", value |-> ErrorString(t, res.exc)]
    ELSE [kind |-> "raise", value |-> res.exc.cls]

\* ------------------------------------------------------------------------
\* State
\* ------------------------------------------------------------------------

VARIABLES
    running,     \* the server process is up
    api_client,  \* create_server's api_client: None, or Some(i) for clients[i]
    clients,     \* the DuckChainAPI instances constructed so far
    inv,         \* the tool invocations: slot -> invocation
    ncalls,      \* tool invocations started
    nreached,    \* tool invocations that obtained the client
    nrequests,   \* GETs handed to httpx
    text         \* what the last resource read or prompt returned

vars == <<running, api_client, clients, inv, ncalls, nreached, nrequests, text>>

\* a slot before its first invocation; a slot whose result the host has
\* taken keeps the tool and arguments of that invocation and is idle again
Idle ==
    [pc |-> "idle", tool |-> "", args |-> <<>>, ctx |-> NoConfig, api |-> None,
     req |-> None, sent |-> 0, quiet |-> 0, out |-> None, exc |-> None,
     result |-> None, again |-> FALSE, prior |-> None]

\* mutant: create_server constructs the client
InitEager ==
    /\ running = TRUE
    /\ api_client = Some(1)
    /\ clients = <<DuckChainAPI>>
    /\ inv = [s \in {1} |-> Idle]
    /\ ncalls = 0
    /\ nreached = 0
    /\ nrequests = 0
    /\ text = None

Init ==
    /\ running = TRUE
    /\ api_client = None
    /\ clients = <<>>
    /\ inv = [s \in {1} |-> Idle]
    /\ ncalls = 0
    /\ nreached = 0
    /\ nrequests = 0
    /\ text = None

\* mutant: the client is built with the timeout of the session configuration
get_api_client_configured(ctx, handle, all, built) ==
    LET seconds == IF ctx.session_config = None THEN timeout
                   ELSE ctx.session_config[1].timeout
        api     == [DuckChainAPI EXCEPT !.timeout = seconds,
                                        !.client = [timeout |-> seconds]]
    IN  IF handle # None
        THEN [raised |-> FALSE, api |-> handle, api_client |-> handle, clients |-> all]
        ELSE IF built
        THEN [raised |-> FALSE, api |-> Some(Len(all) + 1),
              api_client |-> Some(Len(all) + 1), clients |-> Append(all, api)]
        ELSE [raised |-> TRUE, exc |-> ConstructionError,
              api_client |-> handle, clients |-> all]

\* mutant: a client is constructed for every call
get_api_client_per_call(ctx, handle, all, built) ==
    IF built
    THEN [raised |-> FALSE, api |-> Some(Len(all) + 1),
          api_client |-> Some(Len(all) + 1), clients |-> Append(all, DuckChainAPI)]
    ELSE [raised |-> TRUE, exc |-> ConstructionError,
          api_client |-> handle, clients |-> all]

\* mutant: the handle is assigned before the constructor has succeeded, and
\* keeps a client that was never opened
get_api_client_assigned_early(ctx, handle, all, built) ==
    IF handle # None
    THEN [raised |-> FALSE, api |-> handle, api_client |-> handle, clients |-> all]
    ELSE IF built
    THEN [raised |-> FALSE, api |-> Some(Len(all) + 1),
          api_client |-> Some(Len(all) + 1), clients |-> Append(all, DuckChainAPI)]
    ELSE [raised |-> TRUE, exc |-> ConstructionError,
          api_client |-> Some(Len(all) + 1),
          clients |-> Append(all, [DuckChainAPI EXCEPT !.closed = TRUE])]

\* get_api_client: the handle, constructing the client when it is None.
\* It has no await: a call runs from the test to the return without another
\* task of the event loop running in between.  ctx is not read.
\* built = FALSE is the run in which DuckChainAPI() raises.
get_api_client(ctx, handle, all, built) ==
    IF handle # None
    THEN [raised |-> FALSE, api |-> handle, api_client |-> handle, clients |-> all]
    ELSE IF built
    THEN [raised |-> FALSE, api |-> Some(Len(all) + 1),
          api_client |-> Some(Len(all) + 1), clients |-> Append(all, DuckChainAPI)]
    ELSE [raised |-> TRUE, exc |-> ConstructionError,
          api_client |-> handle, clients |-> all]

\* the client a finished invocation of another slot used for a request
\* that failed, None when no slot holds one
FailedWith(s) ==
    LET failed == {r \in DOMAIN inv \ {s} :
                      inv[r].pc = "done" /\ inv[r].api # None /\ inv[r].exc # None}
    IN  IF failed = {} THEN None ELSE inv[CHOOSE r \in failed : TRUE].api

\* A tool handler from its entry to the await of the GET: it obtains the
\* client, builds the request and hands it to httpx.  When obtaining the
\* client raises, the handler ends here with its except clause.
\* tools and ctxs are the tools and the contexts the host calls with.
CallWith(s, tools, ctxs) ==
    /\ running
    /\ inv[s].pc = "idle"
    /\ ncalls < MaxCalls
    /\ \E t \in tools : \E args \in ArgsOf(t) : \E ctx \in ctxs :
       \E built \in (IF api_client = None THEN BOOLEAN ELSE {TRUE}) :
          LET got   == get_api_client(ctx, api_client, clients, built)
              again == inv[s].tool = t /\ inv[s].args = args
          IN  /\ api_client' = got.api_client
              /\ clients' = got.clients
              /\ ncalls' = ncalls + 1
              /\ IF got.raised
                 THEN /\ inv' = [inv EXCEPT ![s] =
                            [Idle EXCEPT !.pc = "done", !.tool = t, !.args = args,
                                         !.ctx = ctx, !.exc = Some(got.exc),
                                         !.result = Some(ToolResult(t, args, got)),
                                         !.again = again,
                                         !.prior = FailedWith(s)]]
                      /\ UNCHANGED <<nreached, nrequests>>
                 ELSE LET call == ClientMethod(MethodOf(t), args)
                          req  == _make_request(got.clients[got.api[1]],
                                              call.endpoint, call.params)
                      IN  /\ inv' = [inv EXCEPT ![s] =
                                [Idle EXCEPT !.pc = "awaiting", !.tool = t,
                                             !.args = args, !.ctx = ctx,
                                             !.api = got.api, !.req = Some(req),
                                             !.sent = 1, !.again = again,
                                             !.prior = FailedWith(s)]]
                          /\ nreached' = nreached + 1
                          /\ nrequests' = nrequests + 1
    /\ UNCHANGED <<running, text>>

\* a host that calls any tool and supplies no session configuration
Call(s) == CallWith(s, Tools, {NoConfig})

\* mutant: a request that failed in transport is sent once more
ReceiveRetrying(s) ==
    /\ running
    /\ inv[s].pc = "awaiting"
    /\ \E out \in Outcomes :
          IF out.kind = "error" /\ inv[s].sent < 2
          THEN /\ inv' = [inv EXCEPT ![s].sent = inv[s].sent + 1]
               /\ nrequests' = nrequests + 1
          ELSE LET res == _make_request_result(inv[s].req[1], out)
               IN  /\ inv' = [inv EXCEPT ![s].pc = "done",
                                         ![s].out = Some(out),
                                         ![s].exc = IF res.raised THEN Some(res.exc)
                                                    ELSE None,
                                         ![s].result =
                                             Some(ToolResult(inv[s].tool, inv[s].args, res))]
                   /\ UNCHANGED nrequests
    /\ UNCHANGED <<running, api_client, clients, ncalls, nreached, text>>

\* mutant: after a transport error the client's timeout is doubled
FinishBackoff(s, out) ==
    /\ running
    /\ inv[s].pc = "awaiting"
    /\ LET res == _make_request_result(inv[s].req[1], out)
       IN  inv' = [inv EXCEPT ![s].pc = "done",
                              ![s].out = Some(out),
                              ![s].exc = IF res.raised THEN Some(res.exc) ELSE None,
                              ![s].result =
                                  Some(ToolResult(inv[s].tool, inv[s].args, res))]
    /\ clients' = IF out.kind = "error"
                  THEN [clients EXCEPT ![inv[s].api[1]].client.timeout = 2 * @]
                  ELSE clients
    /\ UNCHANGED <<running, api_client, ncalls, nreached, nrequests, text>>

\* mutant: the handler's arguments and request live in a variable the
\* handlers share, which a later invocation still in flight has overwritten
FinishSharedArgs(s, out) ==
    /\ running
    /\ inv[s].pc = "awaiting"
    /\ LET later == {r \in DOMAIN inv \ {s} : inv[r].pc = "awaiting"}
           o     == IF later = {} THEN s ELSE CHOOSE r \in later : TRUE
           res   == _make_request_result(inv[o].req[1], out)
       IN  inv' = [inv EXCEPT ![s].pc = "done",
                              ![s].out = Some(out),
                              ![s].exc = IF res.raised THEN Some(res.exc) ELSE None,
                              ![s].result =
                                  Some(ToolResult(inv[o].tool, inv[o].args, res))]
    /\ UNCHANGED <<running, api_client, clients, ncalls, nreached, nrequests, text>>

\* mutant: a failed request drops the client, for the next call to rebuild
FinishResetting(s, out) ==
    /\ running
    /\ inv[s].pc = "awaiting"
    /\ LET res == _make_request_result(inv[s].req[1], out)
       IN  /\ inv' = [inv EXCEPT ![s].pc = "done",
                                 ![s].out = Some(out),
                                 ![s].exc = IF res.raised THEN Some(res.exc) ELSE None,
                                 ![s].result =
                                     Some(ToolResult(inv[s].tool, inv[s].args, res))]
           /\ api_client' = IF res.raised THEN None ELSE api_client
    /\ UNCHANGED <<running, clients, ncalls, nreached, nrequests, text>>

\* A tool handler from the end of the await to its return, the await
\* having ended with out.
Finish(s, out) ==
    /\ running
    /\ inv[s].pc = "awaiting"
    /\ LET res == _make_request_result(inv[s].req[1], out)
       IN  inv' = [inv EXCEPT ![s].pc = "done",
                              ![s].out = Some(out),
                              ![s].exc = IF res.raised THEN Some(res.exc) ELSE None,
                              ![s].result =
                                  Some(ToolResult(inv[s].tool, inv[s].args, res))]
    /\ UNCHANGED <<running, api_client, clients, ncalls, nreached, nrequests, text>>

\* the await ends, with any of the outcomes
Receive(s) == \E out \in Outcomes : Finish(s, out)

\* The host takes the string a handler returned; the slot is free for the
\* next invocation.
Collect(s) ==
    /\ running
    /\ inv[s].pc = "done"
    /\ inv' = [inv EXCEPT ![s] = [Idle EXCEPT !.tool = inv[s].tool,
                                              !.args = inv[s].args]]
    /\ UNCHANGED <<running, api_client, clients, ncalls, nreached, nrequests, text>>

\* ------------------------------------------------------------------------
\* Resources and prompts
\* ------------------------------------------------------------------------

\* the arguments a host passes to the prompts
PromptVals == {"0xABC", ""}

\* The two resources return fixed texts (abridged here to their first line).
api_documentation ==
    /\ running
    /\ text' = Some([op |-> "api_documentation",
                     value |-> "DuckChain MCP Server - BlockScout API v2 Integration"])
    /\ UNCHANGED <<running, api_client, clients, inv, ncalls, nreached, nrequests>>

supported_chains ==
    /\ running
    /\ text' = Some([op |-> "supported_chains",
                     value |-> "Supported BlockScout Networks:"])
    /\ UNCHANGED <<running, api_client, clients, inv, ncalls, nreached, nrequests>>

analyze_transaction ==
    /\ running
    /\ \E transaction_hash \in PromptVals :
          text' = Some([op |-> "analyze_transaction",
                        value |-> "Analyze this blockchain transaction: "
                                  \o transaction_hash
                                  \o ". Provide details about the transaction, its purpose, gas usage, and any token transfers involved."])
    /\ UNCHANGED <<running, api_client, clients, inv, ncalls, nreached, nrequests>>

explore_address ==
    /\ running
    /\ \E address \in PromptVals :
          text' = Some([op |-> "explore_address",
                        value |-> "Explore this blockchain address: " \o address
                                  \o ". Find information about its transactions, token holdings, and activity patterns."])
    /\ UNCHANGED <<running, api_client, clients, inv, ncalls, nreached, nrequests>>

\* mutant: the prompt obtains the API client before it answers
research_token_with_client ==
    /\ running
    /\ \E token_symbol \in PromptVals :
          text' = Some([op |-> "research_token",
                        value |-> "Research the token " \o token_symbol
                                  \o ". Find its contract address, market data, holders, and recent activity."])
    /\ api_client' = get_api_client(NoConfig, api_client, clients, TRUE).api_client
    /\ clients' = get_api_client(NoConfig, api_client, clients, TRUE).clients
    /\ UNCHANGED <<running, inv, ncalls, nreached, nrequests>>

research_token ==
    /\ running
    /\ \E token_symbol \in PromptVals :
          text' = Some([op |-> "research_token",
                        value |-> "Research the token " \o token_symbol
                                  \o ". Find its contract address, market data, holders, and recent activity."])
    /\ UNCHANGED <<running, api_client, clients, inv, ncalls, nreached, nrequests>>

\* ------------------------------------------------------------------------
\* Shutdown
\* ------------------------------------------------------------------------

\* The process ends.  create_server registers no shutdown hook and nothing
\* else holds the client, so no instance is closed on the way out.
Shutdown ==
    /\ running
    /\ running' = FALSE
    /\ UNCHANGED <<api_client, clients, inv, ncalls, nreached, nrequests, text>>

Next ==
    \/ \E s \in DOMAIN inv : Call(s)
    \/ \E s \in DOMAIN inv : Receive(s)
    \/ \E s \in DOMAIN inv : Collect(s)
    \/ api_documentation
    \/ supported_chains
    \/ analyze_transaction
    \/ explore_address
    \/ research_token
    \/ Shutdown

Spec == Init /\ [][Next]_vars

\* ------------------------------------------------------------------------
\* Concurrent invocations
\* ------------------------------------------------------------------------

\* The host may start a tool while another is awaiting its response: the
\* handlers are coroutines of one event loop and interleave at their awaits.

\* the tools the concurrent host calls
ConcTools == {"search_blockchain", "get_blocks", "get_block_details"}

\* two invocations may be in flight at a time
ConcInit ==
    /\ running = TRUE
    /\ api_client = None
    /\ clients = <<>>
    /\ inv = [s \in {1, 2} |-> Idle]
    /\ ncalls = 0
    /\ nreached = 0
    /\ nrequests = 0
    /\ text = None

\* a host that supplies any of the session configurations
ConcCall(s) == CallWith(s, ConcTools, Contexts)

ConcNext ==
    \/ \E s \in DOMAIN inv : ConcCall(s)
    \/ \E s \in DOMAIN inv : Receive(s)
    \/ \E s \in DOMAIN inv : Collect(s)
    \/ Shutdown

ConcSpec == ConcInit /\ [][ConcNext]_vars

\* ------------------------------------------------------------------------
\* Time
\* ------------------------------------------------------------------------

\* While a GET is awaited the upstream may send the response piece by piece.
\* The timeout of the httpx client bounds the wait for each piece, not the
\* request as a whole: quiet counts the seconds since the last piece.

\* the tools the host calls in the timed runs
TimedTools == {"get_transactions", "get_blocks"}

TimedCall(s) == CallWith(s, TimedTools, {NoConfig})

\* a second passes in which no awaited request receives anything
Tick ==
    /\ running
    /\ \E s \in DOMAIN inv : inv[s].pc = "awaiting"
    /\ \A s \in DOMAIN inv :
          inv[s].pc = "awaiting" => inv[s].quiet < inv[s].req[1].timeout
    /\ inv' = [s \in DOMAIN inv |->
                  IF inv[s].pc = "awaiting"
                  THEN [inv[s] EXCEPT !.quiet = inv[s].quiet + 1]
                  ELSE inv[s]]
    /\ UNCHANGED <<running, api_client, clients, ncalls, nreached, nrequests, text>>

\* the upstream sends a piece of the response that does not complete it
Chunk(s) ==
    /\ running
    /\ inv[s].pc = "awaiting"
    /\ inv[s].quiet > 0
    /\ inv' = [inv EXCEPT ![s].quiet = 0]
    /\ UNCHANGED <<running, api_client, clients, ncalls, nreached, nrequests, text>>

ReadTimeout == [kind |-> "error", exc |-> [cls |-> "ReadTimeout", msg |-> ""]]

\* the upstream completes the response, or the transport fails
Complete(s) == \E out \in Outcomes \ {ReadTimeout} : Finish(s, out)

\* httpx gives up a read that has received nothing for the client's timeout
TimeOut(s) ==
    /\ inv[s].pc = "awaiting"
    /\ inv[s].quiet = inv[s].req[1].timeout
    /\ Finish(s, ReadTimeout)

TimedNext ==
    \/ \E s \in DOMAIN inv : TimedCall(s)
    \/ Tick
    \/ \E s \in DOMAIN inv : Chunk(s)
    \/ \E s \in DOMAIN inv : Complete(s)
    \/ \E s \in DOMAIN inv : TimeOut(s)
    \/ \E s \in DOMAIN inv : Collect(s)

\* time passes, and the event loop resumes a handler whose await has ended
TimedSpec ==
    /\ Init
    /\ [][TimedNext]_vars
    /\ WF_vars(Tick)
    /\ WF_vars(\E s \in DOMAIN inv : TimeOut(s))

\* ------------------------------------------------------------------------
\* Properties
\* ------------------------------------------------------------------------

Slots == DOMAIN inv

StartsWith(str, prefix) ==
    Len(str) >= Len(prefix) /\ SubSeq(str, 1, Len(prefix)) = prefix

Contains(str, sub) ==
    \E i \in 1..(Len(str) + 1) :
        i + Len(sub) - 1 <= Len(str) /\ SubSeq(str, i, i + Len(sub) - 1) = sub

\* slot s holds an invocation that has returned
Done(s) == inv[s].pc = "done"

\* the upstream answered the invocation in slot s with a non-2xx status
NonSuccess(s) ==
    /\ Done(s)
    /\ inv[s].out # None
    /\ inv[s].out[1].kind = "response"
    /\ inv[s].out[1].resp.status \div 100 # 2

\* the upstream answered the invocation in slot s with a 2xx status and valid JSON
Success(s) ==
    /\ Done(s)
    /\ inv[s].out # None
    /\ inv[s].out[1].kind = "response"
    /\ inv[s].out[1].resp.status \div 100 = 2
    /\ inv[s].out[1].resp.body \in {BodyPage, BodyList}

\* C1: whatever fails while a tool handles an invocation (obtaining the
\* client, the transport, a non-success status, decoding the JSON), the
\* invocation ends by returning a string; no exception leaves the handler.
C1_ToolAlwaysReturnsString ==
    \A s \in Slots :
        Done(s) =>
            /\ inv[s].result # None
            /\ inv[s].result[1].kind = "return"
            /\ inv[s].result[1].value \in STRING

\* C1 witness: a 2xx answer whose body is not JSON made response.json()
\* raise, and the tool returned a string
C1_Witness ==
    \E s \in Slots :
        /\ Done(s)
        /\ inv[s].exc # None
        /\ inv[s].exc[1].cls = "JSONDecodeError"
        /\ inv[s].result[1].kind = "return"

C3_ErrorStringForm ==
    \A s \in Slots :
        (Done(s) /\ inv[s].exc # None) =>
            /\ inv[s].result[1].value =
                   "Error " \o Tool(inv[s].tool).action \o ": " \o inv[s].exc[1].msg
            /\ (/\ inv[s].tool = "get_block_details"
                /\ inv[s].args = <<"999999999">>
                /\ NonSuccess(s)
                /\ inv[s].out[1].resp.status = 404)
               => /\ StartsWith(inv[s].result[1].value, "Error getting block details: ")
                  /\ inv[s].result[1].value =
                        "Error getting block details: Client error '404 Not Found' for url 'https://scan.duckchain.io/api/v2/blocks/999999999'\nFor more information check: https://developer.mozilla.org/en-US/docs/Web/HTTP/Status/404"

\* C3 witness: get_block_details("999999999") was answered 404
C3_Witness ==
    \E s \in Slots :
        /\ inv[s].tool = "get_block_details"
        /\ inv[s].args = <<"999999999">>
        /\ NonSuccess(s)
        /\ inv[s].out[1].resp.status = 404

\* the text Python prints for the decoded body
C4_Rendered(body) ==
    CASE body = BodyPage -> "{'items': [], 'next_page_params': None}"
      [] body = BodyList -> "[1, True, 'x']"

\* C4: a 2xx answer with a valid JSON body makes the tool return its label
\* (with the caller's argument where the label has one) followed by the
\* decoded JSON content, and nothing is raised.
C4_SuccessString ==
    \A s \in Slots :
        Success(s) =>
            LET t    == inv[s].tool
                body == inv[s].out[1].resp.body
            IN  /\ inv[s].exc = None
                /\ inv[s].result[1].kind = "return"
                /\ inv[s].result[1].value =
                       Interleave(Tool(t).label, inv[s].args) \o C4_Rendered(body)
                /\ (t = "get_transaction_details" /\ inv[s].args = <<"0xTX">>
                    /\ body = BodyPage)
                   => inv[s].result[1].value =
                        "Transaction details for 0xTX:\n{'items': [], 'next_page_params': None}"
                /\ (t = "get_token_instance_details" /\ inv[s].args = <<"0xTOKEN", "7">>
                    /\ body = BodyList)
                   => inv[s].result[1].value =
                        "Token instance details for 0xTOKEN/7:\n[1, True, 'x']"

\* C4 witness: get_transaction_details("0xTX") got a 200 with a JSON object
C4_Witness ==
    \E s \in Slots :
        /\ Success(s)
        /\ inv[s].tool = "get_transaction_details"
        /\ inv[s].args = <<"0xTX">>
        /\ inv[s].out[1].resp.body = BodyPage

\* the tools with optional filter arguments: for each, the argument
\* positions and the upstream names of its filters
C5_Filters(t) ==
    CASE t = "get_transactions" -> << <<1, "filter">>, <<2, "type">>, <<3, "method">> >>
      [] t = "get_blocks" -> << <<1, "type">> >>
      [] t = "get_transaction_token_transfers" -> << <<2, "type">> >>

C5_Tools == {"get_transactions", "get_blocks", "get_transaction_token_transfers"}

\* whether an optional argument counts as supplied: any value but None
\* (empty = TRUE), or only a non-empty one (empty = FALSE)
C5_Supplied(o, empty) == IF empty THEN o # None ELSE Truthy(o)

\* the entry of the i-th filter, when there is one and its argument is supplied
C5_Entry(filters, args, i, empty) ==
    IF i <= Len(filters) /\ C5_Supplied(args[filters[i][1]], empty)
    THEN << <<filters[i][2], args[filters[i][1]][1]>> >>
    ELSE <<>>

\* the entries of the supplied filters, in order
C5_Entries(filters, args, empty) ==
    C5_Entry(filters, args, 1, empty) \o C5_Entry(filters, args, 2, empty)
    \o C5_Entry(filters, args, 3, empty)

\* C5 as stated: the query of get_transactions, get_blocks and
\* get_transaction_token_transfers has exactly the supplied optional
\* arguments, under the names filter / type / method with their exact
\* values, and no entry for an omitted one.
C5_QueryHasSuppliedFilters ==
    \A s \in Slots :
        (inv[s].req # None /\ inv[s].tool \in C5_Tools) =>
            inv[s].req[1].params =
                C5_Entries(C5_Filters(inv[s].tool), inv[s].args, TRUE)

\* C5 amended: the query has exactly the optional arguments supplied with a
\* non-empty value, under the names filter / type / method with their exact
\* values; an omitted argument and one supplied as "" have no entry.
\* get_transactions(filter_type="validated") issues GET /transactions?filter=validated.
C5_QueryHasNonEmptyFilters ==
    \A s \in Slots :
        (inv[s].req # None /\ inv[s].tool \in C5_Tools) =>
            /\ inv[s].req[1].params =
                   C5_Entries(C5_Filters(inv[s].tool), inv[s].args, FALSE)
            /\ (inv[s].tool = "get_transactions"
                /\ inv[s].args = <<Some("validated"), None, None>>)
               => /\ inv[s].req[1].method = "GET"
                  /\ WireUrl(inv[s].req[1]) =
                        "https://scan.duckchain.io/api/v2/transactions?filter=validated"
            /\ (inv[s].tool = "get_transactions"
                /\ inv[s].args = <<Some("validated"), Some(""), Some("transfer")>>)
               => WireUrl(inv[s].req[1]) =
                    "https://scan.duckchain.io/api/v2/transactions?filter=validated&method=transfer"

\* C5 witness: get_transactions(filter_type="validated", None, None) has
\* issued its request
C5_Witness ==
    \E s \in Slots :
        /\ inv[s].req # None
        /\ inv[s].tool = "get_transactions"
        /\ inv[s].args = <<Some("validated"), None, None>>

\* C6: the requested path is the endpoint's template with each placeholder
\* replaced by the caller's value as it is, whatever the value, and the
\* request is sent without the value being checked.
\* get_address_details("0xABC") requests /addresses/0xABC and
\* get_token_instance_holders("0xTOKEN", "7") requests
\* /tokens/0xTOKEN/instances/7/holders.
C6_PathSubstitution ==
    \A s \in Slots :
        (inv[s].pc \in {"awaiting", "done"} /\ inv[s].api # None) =>
            LET t    == inv[s].tool
                args == inv[s].args
            IN  /\ inv[s].req # None
                /\ inv[s].req[1].url =
                       "https://scan.duckchain.io/api/v2"
                       \o Interleave(Method(Tool(t).method).path, args)
                /\ (t = "get_address_details" /\ args = <<"0xABC">>)
                   => inv[s].req[1].url = "https://scan.duckchain.io/api/v2/addresses/0xABC"
                /\ (t = "get_token_instance_holders" /\ args = <<"0xTOKEN", "7">>)
                   => inv[s].req[1].url =
                        "https://scan.duckchain.io/api/v2/tokens/0xTOKEN/instances/7/holders"
                /\ (t = "get_token_instance_holders" /\ args = <<"0xABC", "">>)
                   => inv[s].req[1].url =
                        "https://scan.duckchain.io/api/v2/tokens/0xABC/instances//holders"

\* C6 witness: get_token_instance_holders("0xTOKEN", "7") has issued its request
C6_Witness ==
    \E s \in Slots :
        /\ inv[s].pc = "awaiting"
        /\ inv[s].tool = "get_token_instance_holders"
        /\ inv[s].args = <<"0xTOKEN", "7">>

\* C7: an invocation that obtained the client issues one GET and no more:
\* a failed request is not sent again, and every invocation issues its own
\* request, also when it repeats the tool and arguments of the one before.
C7_OneRequestPerInvocation ==
    /\ \A s \in Slots :
          inv[s].pc \in {"awaiting", "done"} =>
              inv[s].sent = (IF inv[s].api # None THEN 1 ELSE 0)
    /\ nrequests = nreached

\* C7 witness: a second invocation with the tool and arguments of the first
\* has sent its request, making two, and the request has failed
C7_Witness ==
    \E s \in Slots :
        /\ Done(s)
        /\ inv[s].again
        /\ inv[s].out # None
        /\ inv[s].exc # None
        /\ inv[s].sent = 1
        /\ nrequests = 2

\* the endpoints the specification lists, placeholders written {}
C8_ListedEndpoints ==
    { "/search", "/search/check-redirect", "/transactions", "/transactions/{}",
      "/transactions/{}/token-transfers", "/transactions/{}/internal-transactions",
      "/transactions/{}/logs", "/transactions/{}/raw-trace",
      "/transactions/{}/state-changes", "/transactions/{}/summary",
      "/blocks", "/blocks/{}", "/blocks/{}/transactions", "/blocks/{}/withdrawals",
      "/token-transfers", "/internal-transactions",
      "/addresses", "/addresses/{}", "/addresses/{}/counters",
      "/addresses/{}/transactions", "/addresses/{}/token-transfers",
      "/addresses/{}/internal-transactions", "/addresses/{}/logs",
      "/addresses/{}/blocks-validated", "/addresses/{}/token-balances",
      "/addresses/{}/tokens", "/addresses/{}/coin-balance-history",
      "/addresses/{}/coin-balance-history-by-day", "/addresses/{}/withdrawals",
      "/addresses/{}/nft", "/addresses/{}/nft/collections",
      "/tokens", "/tokens/{}", "/tokens/{}/transfers", "/tokens/{}/holders",
      "/tokens/{}/counters", "/tokens/{}/instances", "/tokens/{}/instances/{}",
      "/tokens/{}/instances/{}/transfers", "/tokens/{}/instances/{}/holders",
      "/tokens/{}/instances/{}/transfers-count",
      "/tokens/{}/instances/{}/refetch-metadata",
      "/smart-contracts", "/smart-contracts/counters", "/smart-contracts/{}",
      "/main-page/transactions", "/main-page/blocks", "/main-page/indexing-status",
      "/stats", "/stats/charts/transactions", "/stats/charts/market" }

\* the path template tool t targets, placeholders written {}
C8_Template(t) == Interleave(Method(MethodOf(t)).path, <<"{}", "{}">>)

\* the registered tools and the listed endpoints correspond one to one
C8_OneToOne ==
    /\ Len(ToolNames) = 51
    /\ Cardinality(Tools) = 51
    /\ Cardinality(C8_ListedEndpoints) = 51
    /\ \A t1, t2 \in Tools : t1 # t2 => MethodOf(t1) # MethodOf(t2)
    /\ \A t1, t2 \in Tools : t1 # t2 => C8_Template(t1) # C8_Template(t2)
    /\ {C8_Template(t) : t \in Tools} = C8_ListedEndpoints

\* C8: the 51 tools and the listed endpoints correspond one to one: each
\* tool awaits one client method, which issues a GET to one path template
\* under https://scan.duckchain.io/api/v2; no two tools share a template and
\* every listed endpoint has its tool.
C8_ToolsMatchEndpoints ==
    /\ C8_OneToOne
    /\ \A s \in Slots :
          inv[s].req # None =>
              /\ inv[s].req[1].method = "GET"
              /\ \E a \in ArgsOf(inv[s].tool) :
                    inv[s].req[1].url =
                        "https://scan.duckchain.io/api/v2"
                        \o Interleave(Method(MethodOf(inv[s].tool)).path, a)

\* C8 witness: the last registered tool has issued the GET of its endpoint
C8_Witness ==
    \E s \in Slots :
        /\ inv[s].req # None
        /\ inv[s].tool = "get_smart_contract_details"
        /\ inv[s].req[1].method = "GET"
        /\ inv[s].req[1].url = "https://scan.duckchain.io/api/v2/smart-contracts/0xABC"

\* C9: reading a resource or generating a prompt issues no request and
\* neither creates nor touches the API client: the step that returns its
\* text leaves the client handle, the clients, the requests and the
\* invocations as they were.
C9_ResourcesAndPromptsTouchNothing ==
    [][text' # text =>
          UNCHANGED <<api_client, clients, nrequests, nreached, ncalls, inv>>]_vars

\* C9 witness: a prompt has been generated before any tool was invoked and
\* the client handle is still unset
C9_Witness ==
    /\ text # None
    /\ text[1].op = "research_token"
    /\ api_client = None
    /\ clients = <<>>
    /\ nrequests = 0

\* C10: in every run that creates a client and then shuts down, the client
\* ends closed.
C10_ClientClosedOnShutdown ==
    ~running => \A i \in 1..Len(clients) : clients[i].closed

\* C11: every tool invocation eventually returns a string: a handler that
\* awaits its GET is eventually done, whatever the upstream does.
\* Violated: the client's timeout bounds the wait for each piece of the
\* response, so an upstream that keeps sending pieces less than `timeout`
\* seconds apart, and never completes the response, keeps the handler at
\* its await forever.
C11_EveryInvocationReturns ==
    \A s \in {1, 2} :
        (s \in Slots /\ inv[s].pc = "awaiting") ~> (s \in Slots /\ inv[s].pc = "done")

\* the timeout a client built from the configuration of ctx would have
C12_Configured(ctx) ==
    IF ctx.session_config = None THEN 30 ELSE ctx.session_config[1].timeout

\* C12 as stated: client construction accepts a configuration whose timeout
\* option, 30 when absent, is the one applied to the connection pool.  The
\* only invocation so far is the one that constructed the client.
\* Violated: DuckChainAPI() takes no argument and get_api_client never reads
\* ctx, so a supplied timeout of 10 leaves the pool's timeout at 30.
C12_SuppliedTimeoutApplied ==
    \A s \in Slots :
        (ncalls = 1 /\ inv[s].api # None) =>
            clients[inv[s].api[1]].client.timeout = C12_Configured(inv[s].ctx)

\* C12 amended: client construction takes no configuration; the timeout is
\* fixed at 30 seconds, and 30 is the value applied to the connection pool
\* and to every request, whatever session configuration the host supplies.
C12_TimeoutFixedAt30 ==
    /\ \A i \in 1..Len(clients) :
          clients[i].timeout = 30 /\ clients[i].client.timeout = 30
    /\ \A s \in Slots : inv[s].req # None => inv[s].req[1].timeout = 30

\* a client constructed by an invocation whose session configuration asks
\* for a timeout of 10 seconds
C12_Witness ==
    \E s \in Slots :
        /\ ncalls = 1 /\ inv[s].pc = "awaiting"
        /\ inv[s].ctx.session_config = Some([timeout |-> 10])
        /\ clients[inv[s].api[1]].client.timeout = 30

\* C13 as stated: DuckChainAPI is constructed at most once, by the first
\* invocation: once an invocation has run, the one instance exists.
\* Violated: when DuckChainAPI() raises in the first invocation no instance
\* exists after it, and it is a later invocation that constructs the client.
C13_ConstructedByFirstInvocation ==
    ncalls >= 1 => (Len(clients) = 1 /\ api_client = Some(1))

\* C13 amended: at most one API client instance exists per process; it is
\* constructed by the first invocation whose construction succeeds, and
\* every invocation that obtains a client, that one and all later ones,
\* uses this same instance: no other is ever constructed.
C13_AtMostOneClient ==
    /\ Len(clients) <= 1
    /\ api_client = (IF clients = <<>> THEN None ELSE Some(1))
    /\ nreached > 0 => Len(clients) = 1
    /\ \A s \in Slots : inv[s].api # None => inv[s].api = Some(1)
    /\ \A s \in Slots :
          (inv[s].pc # "idle" /\ inv[s].api = None) => clients = <<>>

\* the second of two invocations that obtained the client, at its await
C13_Witness ==
    \E s \in Slots :
        /\ ncalls = 2 /\ nreached = 2
        /\ inv[s].pc = "awaiting" /\ inv[s].api = Some(1)
        /\ Len(clients) = 1

\* both slots hold an invocation that started before any invocation had
\* finished: the two make the first use of the client concurrently
C14_ConcurrentFirstUse ==
    /\ ncalls = 2
    /\ \A s \in Slots : inv[s].pc = "awaiting"

\* C14 as stated: under concurrent first use two client instances come to
\* exist.  Violated: get_api_client tests and assigns api_client without an
\* await in between, so the invocation that runs it second finds the handle
\* set, and one instance exists.
C14_TwoInstancesUnderConcurrentFirstUse ==
    C14_ConcurrentFirstUse => Len(clients) = 2

\* C14 amended: lazy construction has no lock, and needs none: for any
\* interleaving of concurrent invocations, at most one client instance is
\* ever created, and concurrent invocations hold the same instance.
C14_OneInstanceUnderConcurrentFirstUse ==
    /\ Len(clients) <= 1
    /\ \A s, r \in Slots :
          (inv[s].api # None /\ inv[r].api # None) => inv[s].api = inv[r].api
    /\ \A s \in Slots : inv[s].api # None => inv[s].api = api_client

\* two invocations at their awaits at once, the first two of the process
C14_Witness ==
    /\ C14_ConcurrentFirstUse
    /\ Len(clients) = 1
    /\ inv[1].api = Some(1) /\ inv[2].api = Some(1)

\* C15: creating the server constructs no client; the handle stays unset
\* while no tool has been invoked, whatever resources and prompts are read;
\* and an invocation that issues a request has obtained the client first:
\* a request is only ever issued on a constructed client, the one the
\* handle names.
C15_ClientCreatedLazily ==
    /\ ncalls = 0 => (api_client = None /\ clients = <<>>)
    /\ nrequests > 0 => clients # <<>>
    /\ \A s \in Slots :
          inv[s].req # None =>
              /\ inv[s].api # None
              /\ inv[s].api = api_client
              /\ inv[s].api[1] \in 1..Len(clients)
    /\ (ncalls = 1 /\ nreached = 1) => Len(clients) = 1

\* the first tool invocation at its await, a prompt having been read before
C15_Witness ==
    /\ ncalls = 1 /\ text # None
    /\ inv[1].pc = "awaiting" /\ inv[1].req # None
    /\ api_client = Some(1) /\ clients = <<DuckChainAPI>>

\* C16: every request is issued with the timeout and under the base URL the
\* client was constructed with, and no step of any invocation, successful
\* or failed, changes the timeout or the base URL of a constructed client.
C16_TimeoutAndBaseUrlFixed ==
    /\ [](\A s \in Slots :
            inv[s].req # None =>
                /\ inv[s].req[1].timeout = clients[inv[s].api[1]].client.timeout
                /\ inv[s].req[1].timeout = timeout
                /\ StartsWith(inv[s].req[1].url, base_url))
    /\ [][\A i \in 1..Len(clients) :
              /\ clients'[i].timeout = clients[i].timeout
              /\ clients'[i].client.timeout = clients[i].client.timeout
              /\ clients'[i].base_url = clients[i].base_url]_vars

\* the second of two invocations at its await, the first having failed
\* or succeeded
C16_Witness ==
    /\ ncalls = 2 /\ nrequests = 2
    /\ inv[1].pc = "awaiting"
    /\ inv[1].req[1].timeout = 30

\* the request a tool issues for its arguments, on the shared client
C17_OwnRequest(s) ==
    LET call == ClientMethod(MethodOf(inv[s].tool), inv[s].args)
    IN  _make_request(DuckChainAPI, call.endpoint, call.params)

\* C17: for any interleaving of two concurrent invocations, the request of
\* each is the one its own tool and arguments determine, the string each
\* returns is the one its own tool, arguments and response determine, and a
\* step of one invocation changes nothing of the other: not its arguments,
\* its request, its outcome or its result.
C17_InvocationsIndependent ==
    /\ [](\A s \in Slots :
            /\ inv[s].req # None => inv[s].req[1] = C17_OwnRequest(s)
            /\ (inv[s].pc = "done" /\ inv[s].req # None) =>
                   inv[s].result[1] =
                       ToolResult(inv[s].tool, inv[s].args,
                                  _make_request_result(C17_OwnRequest(s), inv[s].out[1])))
    /\ [][\A s \in Slots :
              inv'[s].pc = inv[s].pc =>
                  /\ inv'[s].tool = inv[s].tool /\ inv'[s].args = inv[s].args
                  /\ inv'[s].req = inv[s].req /\ inv'[s].out = inv[s].out
                  /\ inv'[s].result = inv[s].result]_vars

\* two invocations of different tools, both in flight at once and both
\* finished, one with its data and one with an error
C17_Witness ==
    /\ ncalls = 2
    /\ inv[1].pc = "done" /\ inv[2].pc = "done"
    /\ inv[1].req # None /\ inv[2].req # None
    /\ inv[1].tool = "get_blocks" /\ inv[2].tool = "search_blockchain"
    /\ inv[1].exc = None /\ inv[2].exc # None

\* the invocation of slot s issued a request, and it failed: with a
\* transport error, a non-success status or an undecodable body
C18_Failed(s) ==
    /\ inv[s].pc = "done"
    /\ inv[s].req # None
    /\ inv[s].exc # None
    /\ inv[s].exc[1].cls \in {"ConnectError", "ReadTimeout", "HTTPStatusError",
                              "JSONDecodeError"}

\* C18: after a failed invocation the handle still names the client the
\* invocation used, which is open and as constructed, and no other client
\* exists; an invocation started after the failure uses that same client
\* and issues the request its arguments determine.
C18_FailureLeavesClient ==
    /\ \A s \in Slots :
          C18_Failed(s) =>
              /\ api_client = inv[s].api
              /\ clients = <<DuckChainAPI>>
              /\ ~clients[inv[s].api[1]].closed
    /\ \A s \in Slots :
          (inv[s].pc # "idle" /\ inv[s].prior # None) =>
              /\ inv[s].api = inv[s].prior
              /\ inv[s].api = api_client
              /\ inv[s].sent = 1
              /\ inv[s].req = Some(C17_OwnRequest(s))

\* get_block_details has failed with 404 in slot 1, and the invocation
\* started after it in slot 2 is at its await
C18_Witness ==
    /\ C18_Failed(1)
    /\ inv[1].tool = "get_block_details"
    /\ inv[1].out[1].kind = "response" /\ inv[1].out[1].resp.status = 404
    /\ inv[2].pc = "awaiting" /\ inv[2].prior = Some(1)

\* the invocation of slot s ended in get_api_client: DuckChainAPI() raised
C19_ConstructionFailed(s) ==
    inv[s].pc = "done" /\ inv[s].req = None

\* C19: an invocation in which constructing the client fails returns
\* "Error <action>: <message of the exception>" and has issued no request;
\* the handle is unset after it and no client exists; and the invocation
\* after it runs the constructor again: it either obtains the client it
\* constructs and issues its request on it, or fails in construction too.
C19_ConstructionFailureRetried ==
    /\ \A s \in Slots :
          C19_ConstructionFailed(s) =>
              /\ inv[s].exc = Some(ConstructionError)
              /\ inv[s].result =
                     Some([kind |-> "return",
                           value |-> "Error " \o Tool(inv[s].tool).action \o ": "
                                         \o "Unknown scheme for proxy URL"])
              /\ inv[s].sent = 0 /\ inv[s].api = None
              /\ api_client = None
              /\ clients = <<>>
    /\ \A s \in Slots :
          (ncalls > nreached /\ inv[s].pc = "awaiting") =>
              /\ inv[s].api = Some(1)
              /\ api_client = Some(1)
              /\ clients = <<DuckChainAPI>>
              /\ inv[s].req = Some(C17_OwnRequest(s))

\* the invocation after one whose construction failed, at its await on the
\* client it constructed
C19_Witness ==
    /\ ncalls = 2 /\ nreached = 1
    /\ inv[1].pc = "awaiting"
    /\ clients = <<DuckChainAPI>>

\* the arguments of tool t with every filter given as "" left out instead
C20_Omitted(t, args) ==
    LET filters == C5_Filters(t)
        optional == {filters[k][1] : k \in 1..Len(filters)}
    IN  [i \in 1..Len(args) |->
            IF i \in optional /\ args[i] = Some("") THEN None ELSE args[i]]

\* the request tool t issues for args
C20_Request(t, args) ==
    LET call == ClientMethod(MethodOf(t), args)
    IN  _make_request(DuckChainAPI, call.endpoint, call.params)

\* C20: the request of get_transactions, get_blocks and
\* get_transaction_token_transfers is the request the same call issues with
\* every filter given as "" omitted, and its query has no entry under the
\* name of a filter that is "" or omitted.
\* get_blocks(block_type="") requests /blocks, as get_blocks() does.
C20_EmptyFilterIsOmitted ==
    \A s \in Slots :
        (inv[s].req # None /\ inv[s].tool \in C5_Tools) =>
            LET t       == inv[s].tool
                filters == C5_Filters(t)
                req     == inv[s].req[1]
            IN  /\ req = C20_Request(t, C20_Omitted(t, inv[s].args))
                /\ \A k \in 1..Len(filters) :
                      ~Truthy(inv[s].args[filters[k][1]]) =>
                          \A i \in 1..Len(req.params) :
                              req.params[i][1] # filters[k][2]
                /\ (t = "get_blocks" /\ inv[s].args \in {<<None>>, <<Some("")>>})
                   => WireUrl(req) = "https://scan.duckchain.io/api/v2/blocks"
                /\ (t = "get_transaction_token_transfers"
                    /\ inv[s].args \in {<<"0xTX", None>>, <<"0xTX", Some("")>>})
                   => WireUrl(req) =
                        "https://scan.duckchain.io/api/v2/transactions/0xTX/token-transfers"

\* get_blocks(block_type="") has issued its request
C20_Witness ==
    \E s \in Slots :
        /\ inv[s].pc = "awaiting"
        /\ inv[s].tool = "get_blocks"
        /\ inv[s].args = <<Some("")>>
        /\ inv[s].req[1].params = <<>>

\* the upstream answered the invocation in slot s with a 2xx status and a
\* body that is not JSON: an HTML page, or nothing at all
C21_InvalidJson(s) ==
    /\ Done(s)
    /\ inv[s].out # None
    /\ inv[s].out[1].kind = "response"
    /\ inv[s].out[1].resp.status \in 200..299
    /\ inv[s].out[1].resp.body \in {BodyHtml, ""}

\* C21: a 2xx answer whose body is not valid JSON ends the invocation with
\* the returned string "Error <action>: <message of the decoding error>":
\* no exception leaves the handler and the string is not the success string.
\* get_address_details("0xABC") answered 200 with an HTML page returns
\* "Error getting address details: Expecting value: line 1 column 1 (char 0)".
C21_InvalidJsonIsError ==
    \A s \in Slots :
        C21_InvalidJson(s) =>
            /\ inv[s].result[1].kind = "return"
            /\ inv[s].exc # None /\ inv[s].exc[1].cls = "JSONDecodeError"
            /\ StartsWith(inv[s].result[1].value,
                          "Error " \o Tool(inv[s].tool).action \o ": ")
            /\ ~StartsWith(inv[s].result[1].value,
                           Interleave(Tool(inv[s].tool).label, inv[s].args))
            /\ (inv[s].tool = "get_address_details" /\ inv[s].args = <<"0xABC">>)
               => inv[s].result[1].value =
                    "Error getting address details: Expecting value: line 1 column 1 (char 0)"

\* get_address_details("0xABC") was answered 200 with an HTML page
C21_Witness ==
    \E s \in Slots :
        /\ C21_InvalidJson(s)
        /\ inv[s].tool = "get_address_details"
        /\ inv[s].args = <<"0xABC">>
        /\ inv[s].out[1].resp.status = 200
        /\ inv[s].out[1].resp.body = BodyHtml

\* the path and the success label of the two search tools
C22_Search(t) ==
    CASE t = "search_blockchain" ->
            [path |-> "/search", label |-> "Search results for '"]
      [] t = "check_search_redirect" ->
            [path |-> "/search/check-redirect", label |-> "Search redirect check for '"]

\* C22: search_blockchain and check_search_redirect issue GET /search and
\* GET /search/check-redirect with the single parameter q set to the
\* caller's string, whatever the string, the empty one included, and their
\* success string echoes that string between quotes.
\* search_blockchain("") requests /search?q= .
C22_SearchAlwaysSendsQuery ==
    \A s \in Slots :
        (inv[s].req # None /\ inv[s].tool \in {"search_blockchain", "check_search_redirect"}) =>
            LET t   == inv[s].tool
                q   == inv[s].args[1]
                req == inv[s].req[1]
            IN  /\ req.method = "GET"
                /\ req.url = "https://scan.duckchain.io/api/v2" \o C22_Search(t).path
                /\ req.params = << <<"q", q>> >>
                /\ WireUrl(req) = req.url \o "?q=" \o q
                /\ (t = "search_blockchain" /\ q = "")
                   => WireUrl(req) = "https://scan.duckchain.io/api/v2/search?q="
                /\ Success(s) =>
                      StartsWith(inv[s].result[1].value,
                                 C22_Search(t).label \o q \o "':\n")

\* search_blockchain("") was answered 200 with JSON
C22_Witness ==
    \E s \in Slots :
        /\ Success(s)
        /\ inv[s].tool = "search_blockchain"
        /\ inv[s].args = <<"">>
        /\ inv[s].req[1].params = << <<"q", "">> >>
        /\ StartsWith(inv[s].result[1].value, "Search results for '':\n")

\* the prefix of the error strings of tool t
C23_Prefix(t) == "Error " \o Tool(t).action \o ": "

\* C23: an error string a tool returns starts with the prefix of that tool
\* and of no other tool: the prefixes of the 51 tools are pairwise distinct.
\* Violated: get_token_transfers and get_token_transfers_by_token both
\* return "Error getting token transfers: ...".
C23_ErrorPrefixIdentifiesTool ==
    \A s \in Slots :
        (Done(s) /\ inv[s].exc # None) =>
            \A t \in Tools :
                StartsWith(inv[s].result[1].value, C23_Prefix(t)) <=> t = inv[s].tool

============================================================================
